---- MODULE Spec2Model ----
(***************************************************************************)
(* Governor for VS Code: the CLI transport/client (GovernorClient) and the *)
(* correlator polling / capture-alert hysteresis of the extension entry    *)
(* point, and the debounced on-type checker (RealtimeChecker).            *)
(*                                                                         *)
(* Eight specifications share the module's variables; each starts the other  *)
(* parts idle and leaves them unchanged:                                   *)
(*   SpecPoll  correlator polling and alert hysteresis (extension.ts)      *)
(*   SpecCaps  capability negotiation (GovernorClient.getCapabilities)     *)
(*   SpecExec  the process transport (GovernorClient.execute / execJson)   *)
(*   SpecProbe one probe-all over every way its probe processes can end    *)
(*   SpecCall  one call: the environment given to spawn, and what execJson,*)
(*             execVoid and runDoctor make of what execute() settled with  *)
(*   SpecRealtime  the debounce timers of RealtimeChecker on a discrete    *)
(*             clock (realtime/checker.ts)                                 *)
(*   SpecHover the state cache of GovernorHoverProvider (hovers/provider.ts)*)
(*   SpecRun   the results of one document's checks (runCheck of           *)
(*             RealtimeChecker); SpecRunFair adds fairness for liveness    *)
(***************************************************************************)
EXTENDS Integers, Sequences, FiniteSets, TLC

\* ------------------------------------------------------------------ bounds
\* Largest raw value of the two threshold settings that is explored.
MaxThresholdCfg == 3
\* Cap on the hysteresis counters (the code's counters are unbounded).
MaxCount == 4
\* Cap on the number of correlator-status processes in flight at once
\* (the code has no such cap).
MaxPolls == 2

\* ------------------------------------------------------------- poll state
VARIABLES
  phase,                \* "init" before activate(), "active", "disposed"
  backgroundEnabled,    \* governor.backgroundActivity.enabled
  correlatorEnabled,    \* governor.correlator.enabled
  captureThresholdCfg,  \* governor.correlator.captureThreshold (raw)
  clearThresholdCfg,    \* governor.correlator.clearThreshold (raw)
  correlatorTimer,      \* TRUE when the module variable holds a timer
  activeTimers,         \* number of interval timers scheduled in the host
  polls,                \* in-flight getCorrelatorStatus calls, oldest first
  capturedConsecutive,
  okConsecutive,
  captureAlert,         \* the Problems-panel capture diagnostic is present
  statusBarText,        \* "unknown", "captured", "pulse"
  statusBarVisible,
  isTrusted,            \* vscode.workspace.isTrusted
  preflightStarted,     \* the automatic preflight has gone on to spawn
  overtaken             \* history: how many of the oldest in-flight polls
                        \* were issued before a poll whose result has
                        \* already been applied

pollVars == <<phase, backgroundEnabled, correlatorEnabled, captureThresholdCfg,
              clearThresholdCfg, correlatorTimer, activeTimers, polls,
              capturedConsecutive, okConsecutive, captureAlert, statusBarText,
              statusBarVisible, isTrusted, preflightStarted, overtaken>>


\* -------------------------------------------- capability negotiation state
VARIABLES
  executablePath,         \* config.executablePath
  capabilities,           \* NoCaps (null) or a capability set
  capabilityProbe,        \* 0 (null) or the probe-all the field refers to
  capabilitiesProbedFor,  \* NoPath (null) or a path
  probeAlls,              \* the probeAll() calls in flight, by slot
  capReturns,             \* what the latest step returned to getCapabilities callers
  settledSincePathChange  \* a probe-all has settled since executablePath last changed

capsVars == <<executablePath, capabilities, capabilityProbe,
              capabilitiesProbedFor, probeAlls, capReturns,
              settledSincePathChange>>

\* ------------------------------------------------------- transport state
VARIABLES
  calls,                  \* the execJson/execVoid calls made, by slot
  inflight,               \* the client's map of tracked child processes (its keys)
  disposed                \* dispose() has run

trackVars == <<inflight, disposed>>
execVars == <<calls, trackVars>>

\* ------------------------------------------------- one probe-all, alone
VARIABLES
  probeEnds,              \* how the process of each per-feature probe ends
  probeAllSettled         \* NoOutcome, or what probeAll() settled with

probeVars == <<probeEnds, probeAllSettled>>

\* ---------------------------------------- one call, from spawn to outcome
VARIABLES
  processEnv,             \* process.env of the extension host (the variables at stake)
  platform,               \* process.platform
  childEnv,               \* NoEnv, or the env option execute() gave to spawn
  rawResult,              \* what execute() settles with for the call
  jsonOutcome,            \* Unsettled, or what execJson made of rawResult
  voidOutcome,            \* Unsettled, or what execVoid made of rawResult
  doctorOutcome           \* Unsettled, or what runDoctor made of rawResult

callVars == <<processEnv, platform, childEnv, rawResult, jsonOutcome, voidOutcome,
              doctorOutcome>>

\* -------------------------------------------------- realtime checker state
VARIABLES
  enabled,            \* RealtimeChecker.enabled
  debounceMs,         \* RealtimeChecker.debounceMs, in clock ticks
  excludedLanguages,  \* RealtimeChecker.excludedLanguages
  pendingChecks,      \* document -> deadline of its timer handle, or NoTime
  subscribed,         \* the two event subscriptions are live (disposables)
  timerQueue,         \* timers scheduled in the host and not cleared/fired
  now,                \* the clock
  isClosed,           \* document.isClosed, per document
  burstLast,          \* history: time of the watched document's last
                      \* accepted change, or NoTime
  burstDue,           \* history: burstLast + debounceMs as it then was
  burstMany,          \* history: the burst has had more than one change
  checks,             \* history: checks of the watched document started
                      \* since its current burst began
  interrupted         \* history: during the burst the document's pending
                      \* timer was cancelled or the document closed

rtVars == <<enabled, debounceMs, excludedLanguages, pendingChecks, subscribed,
            timerQueue, now, isClosed, burstLast, burstDue, burstMany,
            checks, interrupted>>

\* ------------------------------------------------------ hover cache state
VARIABLES
  cachedState,   \* GovernorHoverProvider.cachedState, or NoState
  lastFetch,     \* GovernorHoverProvider.lastFetch
  fetches,       \* fetchState() calls in flight, oldest first
  hoverClock,    \* Date.now(), in clock steps
  epoch,         \* history: number of invalidateCache() calls so far
  lastHover      \* history: what the latest hover request was served

hoverVars == <<cachedState, lastFetch, fetches, hoverClock, epoch, lastHover>>

\* ------------------------------------------ one document's check results
VARIABLES
  docVersion,       \* the content of the watched document, as a version
  docDirty,         \* document.isDirty
  docClosed,        \* document.isClosed
  editing,          \* the user has not yet stopped editing
  debouncePending,  \* pendingChecks holds a timer for the document
  runningChecks,    \* versions of the checks awaiting checkFunction
  checked,          \* history: versions checkFunction was called with
  succeeded,        \* history: versions whose check has resolved
  delivered,        \* history: versions whose result went to onResult
  lastDelivery      \* history: the latest delivery, with the content then

runVars == <<docVersion, docDirty, docClosed, editing, debouncePending,
             runningChecks, checked, succeeded, delivered, lastDelivery>>

otherVars == <<probeVars, callVars, rtVars, hoverVars, runVars>>
vars == <<pollVars, capsVars, execVars, otherVars>>
notPollVars == <<capsVars, execVars, otherVars>>
notCapsVars == <<pollVars, execVars, otherVars>>
notExecVars == <<pollVars, capsVars, otherVars>>
notProbeVars ==
  <<pollVars, capsVars, execVars, callVars, rtVars, hoverVars, runVars>>
notCallVars ==
  <<pollVars, capsVars, execVars, probeVars, rtVars, hoverVars, runVars>>
notRtVars ==
  <<pollVars, capsVars, execVars, probeVars, callVars, hoverVars, runVars>>
notHoverVars ==
  <<pollVars, capsVars, execVars, probeVars, callVars, rtVars, runVars>>
notRunVars ==
  <<pollVars, capsVars, execVars, probeVars, callVars, rtVars, hoverVars>>

Max(a, b) == IF a >= b THEN a ELSE b
Min(a, b) == IF a <= b THEN a ELSE b

\* Math.max(1, Math.min(10, config.get(..., 3)))
ClampThreshold(raw) == Max(1, Min(10, raw))

CaptureThreshold == ClampThreshold(captureThresholdCfg)
ClearThreshold == ClampThreshold(clearThresholdCfg)

\* What a finished getCorrelatorStatus call hands to pollCorrelator:
\*   "captured" / "ok"  a status object with is_captured true / false
\*   "null"             exit 0 and a falsy JSON document (JSON.parse("null"))
\*   "error"            the call rejected (spawn failure, non-zero exit,
\*                      unparsable output)
PollOutcomes == {"captured", "ok", "null", "error"}

CapturedAfterNoReset(outcome, cap) ==
  IF outcome = "captured" THEN cap + 1 ELSE cap

\* capturedConsecutive after updateCorrelatorStatusBar(status, isError)
CapturedAfter(outcome, cap) ==
  IF outcome = "error" THEN cap
  ELSE IF outcome = "captured" THEN cap + 1
  ELSE 0

OkAfterCountingErrors(outcome, ok) ==
  IF outcome = "captured" THEN 0 ELSE ok + 1

\* okConsecutive after updateCorrelatorStatusBar(status, isError)
OkAfter(outcome, ok) ==
  IF outcome = "error" THEN ok
  ELSE IF outcome = "captured" THEN 0
  ELSE ok + 1

ShowCaptureOneEarly(cap, threshold) == cap >= threshold - 1

\* const showCapture = capturedConsecutive >= captureThreshold
ShowCapture(cap, threshold) == cap >= threshold

ClearDueOnFirstOk(ok, threshold) == ok >= 1

\* if (okConsecutive >= clearThreshold) clearCaptureAlert(...)
ClearDue(ok, threshold) == ok >= threshold

\* updateCorrelatorStatusBar(status, isError)
UpdateCorrelatorStatusBar(outcome) ==
  LET cap == CapturedAfter(outcome, capturedConsecutive)
      ok  == OkAfter(outcome, okConsecutive)
  IN  /\ capturedConsecutive' = cap
      /\ okConsecutive' = ok
      /\ IF outcome \in {"error", "null"}
         THEN /\ statusBarVisible' = FALSE
              /\ UNCHANGED <<statusBarText, captureAlert>>
         ELSE /\ statusBarVisible' = TRUE
              /\ IF ShowCapture(cap, CaptureThreshold)
                 THEN /\ statusBarText' = "captured"
                      /\ captureAlert' = TRUE
                 ELSE /\ statusBarText' = "pulse"
                      /\ captureAlert' =
                           IF ClearDue(ok, ClearThreshold) THEN FALSE ELSE captureAlert

\* if (!...("backgroundActivity.enabled")) return;
\* if (!...("correlator.enabled")) return: the settings under which
\* startCorrelatorPolling() goes on.
PollingEnabled(bg, corr) == bg /\ corr

\* runPreflightOnOpen(), up to its await: whether it goes on to
\* client.getCapabilities() and the preflight run, which spawn processes.
RunPreflightOnOpen(bg, preflightEnabled, trusted) ==
  bg /\ preflightEnabled /\ trusted

\* pollCorrelator(), up to its await: client.getCorrelatorStatus() spawns one
\* more correlator-status process.
PollCorrelatorIssue(ps) == Append(ps, "pending")

\* startCorrelatorPolling() without its stopCorrelatorPolling(): a timer
\* already scheduled stays scheduled.
RestartPollingWithoutStop(bg, corr, timer, timers, ps) ==
  IF PollingEnabled(bg, corr)
  THEN <<TRUE, timers + 1, PollCorrelatorIssue(ps)>>
  ELSE <<FALSE, timers, ps>>

\* stopCorrelatorPolling(); startCorrelatorPolling() with the given settings.
\* Yields <<correlatorTimer', activeTimers', polls'>>.
RestartPolling(bg, corr, timer, timers, ps) ==
  LET stopped == IF timer THEN timers - 1 ELSE timers
  IN  IF PollingEnabled(bg, corr)
      THEN <<TRUE, stopped + 1, PollCorrelatorIssue(ps)>>
      ELSE <<FALSE, stopped, ps>>

\* startCorrelatorPolling() alone: the early returns come before the stop.
StartPolling(bg, corr, timer, timers, ps) ==
  IF PollingEnabled(bg, corr)
  THEN RestartPolling(bg, corr, timer, timers, ps)
  ELSE <<timer, timers, ps>>

PollInit ==
  /\ phase = "init"
  /\ backgroundEnabled \in BOOLEAN
  /\ correlatorEnabled \in BOOLEAN
  /\ captureThresholdCfg \in 0..MaxThresholdCfg
  /\ clearThresholdCfg \in 0..MaxThresholdCfg
  /\ correlatorTimer = FALSE
  /\ activeTimers = 0
  /\ polls = <<>>
  /\ capturedConsecutive = 0
  /\ okConsecutive = 0
  /\ captureAlert = FALSE
  /\ statusBarText = "unknown"
  /\ statusBarVisible = FALSE
  /\ isTrusted \in BOOLEAN
  /\ preflightStarted = FALSE
  /\ overtaken = 0

\* activate(): its initial load, runPreflightOnOpen() and
\* startCorrelatorPolling(). preflightEnabled is governor.preflight.enabled
\* as read by runPreflightOnOpen().
Activate ==
  /\ UNCHANGED notPollVars
  /\ UNCHANGED overtaken
  /\ phase = "init"
  /\ phase' = "active"
  /\ \E preflightEnabled \in BOOLEAN :
       preflightStarted' =
         RunPreflightOnOpen(backgroundEnabled, preflightEnabled, isTrusted)
  /\ UNCHANGED isTrusted
  /\ LET r == StartPolling(backgroundEnabled, correlatorEnabled,
                           correlatorTimer, activeTimers, polls)
     IN  /\ correlatorTimer' = r[1]
         /\ activeTimers' = r[2]
         /\ polls' = r[3]
  /\ UNCHANGED <<backgroundEnabled, correlatorEnabled, captureThresholdCfg,
                 clearThresholdCfg, capturedConsecutive, okConsecutive,
                 captureAlert, statusBarText, statusBarVisible>>

\* The settings under governor.correlator and governor.backgroundActivity.
PollSettings == {"backgroundActivity.enabled", "correlator.enabled",
                 "correlator.captureThreshold", "correlator.clearThreshold",
                 "correlator.pollIntervalMs"}

\* The values a setting is given (the poll interval is not modelled: its
\* change restarts polling like any other).
SettingValues(setting) ==
  IF setting \in {"backgroundActivity.enabled", "correlator.enabled"} THEN BOOLEAN
  ELSE IF setting = "correlator.pollIntervalMs" THEN {30000}
  ELSE 0..MaxThresholdCfg

\* onDidChangeConfiguration, for a change of one setting under
\* governor.correlator or governor.backgroundActivity: stop, then start with
\* the new settings.
ConfigChange(setting, value) ==
  /\ UNCHANGED notPollVars
  /\ UNCHANGED overtaken
  /\ phase = "active"
  /\ backgroundEnabled' =
       IF setting = "backgroundActivity.enabled" THEN value ELSE backgroundEnabled
  /\ correlatorEnabled' =
       IF setting = "correlator.enabled" THEN value ELSE correlatorEnabled
  /\ captureThresholdCfg' =
       IF setting = "correlator.captureThreshold" THEN value ELSE captureThresholdCfg
  /\ clearThresholdCfg' =
       IF setting = "correlator.clearThreshold" THEN value ELSE clearThresholdCfg
  /\ (backgroundEnabled' /\ correlatorEnabled') => Len(polls) < MaxPolls
  /\ LET r == RestartPolling(backgroundEnabled', correlatorEnabled',
                             correlatorTimer, activeTimers, polls)
     IN  /\ correlatorTimer' = r[1]
         /\ activeTimers' = r[2]
         /\ polls' = r[3]
  /\ UNCHANGED <<phase, capturedConsecutive, okConsecutive, captureAlert,
                 statusBarText, statusBarVisible,
                 isTrusted, preflightStarted>>

ConfigChanges ==
  \E setting \in PollSettings : \E value \in SettingValues(setting) :
    ConfigChange(setting, value)

\* The setInterval callback: () => { pollCorrelator(); }
PollTimerTick ==
  /\ UNCHANGED notPollVars
  /\ UNCHANGED overtaken
  /\ correlatorTimer
  /\ Len(polls) < MaxPolls
  /\ polls' = PollCorrelatorIssue(polls)
  /\ UNCHANGED <<phase, backgroundEnabled, correlatorEnabled, captureThresholdCfg,
                 clearThresholdCfg, correlatorTimer, activeTimers,
                 capturedConsecutive, okConsecutive, captureAlert, statusBarText,
                 statusBarVisible, isTrusted, preflightStarted>>

\* governor.refreshState: ...; pollCorrelator()
RefreshState ==
  /\ UNCHANGED notPollVars
  /\ UNCHANGED overtaken
  /\ phase = "active"
  /\ Len(polls) < MaxPolls
  /\ polls' = PollCorrelatorIssue(polls)
  /\ UNCHANGED <<phase, backgroundEnabled, correlatorEnabled, captureThresholdCfg,
                 clearThresholdCfg, correlatorTimer, activeTimers,
                 capturedConsecutive, okConsecutive, captureAlert, statusBarText,
                 statusBarVisible, isTrusted, preflightStarted>>

RemoveAt(s, i) == [j \in 1..(Len(s) - 1) |-> IF j < i THEN s[j] ELSE s[j + 1]]

\* The history count after the result of the i-th in-flight poll has been
\* applied: the polls before it have been overtaken; an overtaken poll that
\* is applied leaves the count.
OvertakenAfter(n, i) == IF i <= n THEN n - 1 ELSE i - 1

\* The continuation of pollCorrelator() after its await: the i-th in-flight
\* call settles with the given outcome.
PollSettle(i, outcome) ==
  /\ UNCHANGED notPollVars
  /\ i \in 1..Len(polls)
  /\ CapturedAfter(outcome, capturedConsecutive) <= MaxCount
  /\ OkAfter(outcome, okConsecutive) <= MaxCount
  /\ polls' = RemoveAt(polls, i)
  /\ overtaken' = OvertakenAfter(overtaken, i)
  /\ UpdateCorrelatorStatusBar(outcome)
  /\ UNCHANGED <<phase, backgroundEnabled, correlatorEnabled, captureThresholdCfg,
                 clearThresholdCfg, correlatorTimer, activeTimers,
                 isTrusted, preflightStarted>>

PollSettles == \E i \in 1..MaxPolls, outcome \in PollOutcomes : PollSettle(i, outcome)

\* onDidGrantWorkspaceTrust: runPreflightOnOpen(); startCorrelatorPolling().
GrantTrust ==
  /\ UNCHANGED notPollVars
  /\ UNCHANGED overtaken
  /\ phase = "active"
  /\ ~isTrusted
  /\ isTrusted' = TRUE
  /\ \E preflightEnabled \in BOOLEAN :
       preflightStarted' =
         (preflightStarted
            \/ RunPreflightOnOpen(backgroundEnabled, preflightEnabled, isTrusted'))
  /\ PollingEnabled(backgroundEnabled, correlatorEnabled) => Len(polls) < MaxPolls
  /\ LET r == StartPolling(backgroundEnabled, correlatorEnabled,
                           correlatorTimer, activeTimers, polls)
     IN  /\ correlatorTimer' = r[1]
         /\ activeTimers' = r[2]
         /\ polls' = r[3]
  /\ UNCHANGED <<phase, backgroundEnabled, correlatorEnabled, captureThresholdCfg,
                 clearThresholdCfg, capturedConsecutive, okConsecutive,
                 captureAlert, statusBarText, statusBarVisible>>

\* The correlator-status processes after client.dispose(): those whose key
\* is in the client's inflight map have been killed. pollCorrelator() goes
\* through execute(), which registers nothing in the map.
DisposePolls(ps, tracked) ==
  [i \in 1..Len(ps) |-> IF i \in tracked THEN "killed" ELSE ps[i]]

\* The cleanup disposable: stopCorrelatorPolling(); client.dispose().
Deactivate ==
  /\ UNCHANGED <<capsVars, calls, otherVars>>
  /\ UNCHANGED overtaken
  /\ phase = "active"
  /\ phase' = "disposed"
  /\ correlatorTimer' = FALSE
  /\ activeTimers' = IF correlatorTimer THEN activeTimers - 1 ELSE activeTimers
  /\ polls' = DisposePolls(polls, inflight)
  /\ inflight' = {}
  /\ disposed' = TRUE
  /\ UNCHANGED <<backgroundEnabled, correlatorEnabled, captureThresholdCfg,
                 clearThresholdCfg, capturedConsecutive, okConsecutive,
                 captureAlert, statusBarText, statusBarVisible, isTrusted,
                 preflightStarted>>

PollNext ==
  \/ Activate
  \/ PollTimerTick
  \/ RefreshState
  \/ ConfigChanges
  \/ PollSettles
  \/ GrantTrust
  \/ Deactivate

\* ------------------------------------------------- capability negotiation
\* Cap on the probe-all operations in flight at once, and on the
\* getCapabilities calls awaiting them.
MaxProbeAlls == 2
MaxCallers == 2

\* The executable paths explored: the empty string is a falsy setting value.
Paths == {"", "governor", "governor-next"}
Absent == "<absent>"
NoPath == "<null>"
NoCaps == [probed |-> FALSE]
NoProbe == [running |-> {}]

\* Promise.all([...]) of probeAll: the six probes spawned together.
MainFeatures == {"preflight", "correlator", "scope", "kernel", "scar", "drift"}
Features == MainFeatures \cup {"oracle"}

\* The binaries behind the explored paths: the subcommands whose help form
\* exits 0. Nothing can be spawned from the empty path.
Supported(path) ==
  IF path = "governor" THEN Features
  ELSE IF path = "governor-next" THEN {"preflight", "correlator", "oracle"}
  ELSE {}

\* probe(args): true iff the process spawned from `path` exits 0.
Probe(path, feature) == feature \in Supported(path)

\* The CapabilitySet probeAll() resolves with; mainPath and oraclePath record
\* the executable the processes were spawned from.
CapabilitySet(mainPath, oraclePath) ==
  [probed |-> TRUE,
   mainPath |-> mainPath,
   oraclePath |-> oraclePath,
   flags |-> {f \in MainFeatures : Probe(mainPath, f)}
             \cup {f \in {"oracle"} : Probe(oraclePath, f)}]

ProbeSlots == 1..MaxProbeAlls
InFlight == {p \in ProbeSlots : probeAlls[p] # NoProbe}
Waiting == LET RECURSIVE Sum(_)
               Sum(S) == IF S = {} THEN 0
                         ELSE LET p == CHOOSE x \in S : TRUE
                              IN  Len(probeAlls[p].waiters) + Sum(S \ {p})
           IN  Sum(InFlight)


CapsInit ==
  /\ executablePath \in Paths
  /\ capabilities = NoCaps
  /\ capabilityProbe = 0
  /\ capabilitiesProbedFor = NoPath
  /\ probeAlls = [p \in ProbeSlots |-> NoProbe]
  /\ capReturns = <<>>
  /\ settledSincePathChange = FALSE

PathChangedIgnoringEmpty(newPath, oldPath) == newPath # Absent /\ newPath # oldPath

PathChangedOnAnySet(newPath, oldPath) == newPath # Absent /\ newPath # ""

\* if (config.executablePath && config.executablePath !== oldPath)
PathChanged(newPath, oldPath) ==
  newPath # Absent /\ newPath # "" /\ newPath # oldPath

\* updateConfig(config): the partial config carries an executablePath or not
\* (Absent: only cwd is given; cwd is read by spawn alone and is not
\* modelled).
UpdateConfig(newPath) ==
  /\ UNCHANGED notCapsVars
  /\ executablePath' = IF newPath = Absent THEN executablePath ELSE newPath
  /\ IF PathChanged(newPath, executablePath)
     THEN /\ capabilities' = NoCaps
          /\ capabilityProbe' = 0
          /\ capabilitiesProbedFor' = NoPath
     ELSE UNCHANGED <<capabilities, capabilityProbe, capabilitiesProbedFor>>
  \* a probe-all started before the executable path changed is marked
  /\ probeAlls' = [p \in ProbeSlots |->
       IF probeAlls[p] # NoProbe /\ executablePath' # executablePath
       THEN [probeAlls[p] EXCEPT !.pathChanged = TRUE]
       ELSE probeAlls[p]]
  /\ capReturns' = <<>>
  /\ settledSincePathChange' =
       (settledSincePathChange /\ executablePath' = executablePath)

UpdateConfigs == \E newPath \in Paths \cup {Absent} : UpdateConfig(newPath)

JoinOrStartAlwaysStart(ref) == 0

\* if (!this.capabilityProbe) this.capabilityProbe = this.probeAll():
\* the reference a caller may join (0: none, start a new probe-all).
JoinOrStart(ref) == ref

\* getCapabilities(), up to its await (or to its return of the cached set).
GetCapabilities ==
  /\ UNCHANGED notCapsVars
  /\ LET invalidate == capabilities # NoCaps /\ capabilitiesProbedFor # executablePath
         caps == IF invalidate THEN NoCaps ELSE capabilities
         ref  == JoinOrStart(IF invalidate THEN 0 ELSE capabilityProbe)
     IN  IF caps # NoCaps
         THEN /\ capReturns' = <<[calledWith |-> executablePath, caps |-> caps,
                                   cached |-> TRUE]>>
              /\ UNCHANGED <<executablePath, capabilities, capabilityProbe,
                             capabilitiesProbedFor, probeAlls>>
         ELSE /\ Waiting < MaxCallers
              /\ capabilities' = caps
              /\ capReturns' = <<>>
              /\ IF ref = 0
                 THEN \E p \in ProbeSlots :
                        /\ probeAlls[p] = NoProbe
                        /\ \A q \in ProbeSlots : q < p => probeAlls[q] # NoProbe
                        \* probeAll() runs to its first await: six probes spawned
                        /\ probeAlls' = [probeAlls EXCEPT ![p] =
                             [running |-> MainFeatures,
                              mainPath |-> executablePath,
                              oraclePath |-> NoPath,
                              waiters |-> <<executablePath>>,
                              pathChanged |-> FALSE]]
                        /\ capabilityProbe' = p
                 ELSE /\ probeAlls' = [probeAlls EXCEPT ![ref].waiters =
                                         Append(@, executablePath)]
                      /\ capabilityProbe' = ref
              /\ UNCHANGED <<executablePath, capabilitiesProbedFor>>
  /\ UNCHANGED settledSincePathChange

ProbedForPathUsed(current, used) == used

\* this.capabilitiesProbedFor = this.config.executablePath
ProbedFor(current, used) == current

\* The six probes of one probe-all are independent processes and the client
\* reads nothing of them until the last has closed, so their close events
\* commute; they are explored in the order probeAll() lists them.
FeatureOrder == <<"preflight", "correlator", "scope", "kernel", "scar", "drift", "oracle">>
NextToClose(running, f) ==
  \E i \in 1..Len(FeatureOrder) :
    /\ FeatureOrder[i] = f
    /\ \A j \in 1..(i - 1) : FeatureOrder[j] \notin running

\* A probe process of probe-all p closes (or fails to spawn) and probe()
\* resolves. The last of the six lets probeAll() go on to spawn the oracle
\* probe; the oracle probe's end resolves probeAll() and resumes every
\* getCapabilities call awaiting it.
ProbeClose(p, f) ==
  /\ UNCHANGED notCapsVars
  /\ probeAlls[p] # NoProbe
  /\ f \in probeAlls[p].running
  /\ NextToClose(probeAlls[p].running, f)
  /\ LET pa == probeAlls[p] IN
     IF f # "oracle"
     THEN /\ probeAlls' = [probeAlls EXCEPT ![p] =
               IF pa.running = {f}
               THEN [pa EXCEPT !.running = {"oracle"}, !.oraclePath = executablePath]
               ELSE [pa EXCEPT !.running = @ \ {f}]]
          /\ capReturns' = <<>>
          /\ UNCHANGED <<executablePath, capabilities, capabilityProbe,
                         capabilitiesProbedFor, settledSincePathChange>>
     ELSE LET result == CapabilitySet(pa.mainPath, pa.oraclePath) IN
          /\ probeAlls' = [probeAlls EXCEPT ![p] = NoProbe]
          /\ capabilities' = result
          /\ capabilitiesProbedFor' = ProbedFor(executablePath, pa.mainPath)
          /\ capabilityProbe' = 0
          /\ capReturns' = [i \in 1..Len(pa.waiters) |->
                              [calledWith |-> pa.waiters[i], caps |-> result,
                               cached |-> FALSE]]
          /\ settledSincePathChange' = TRUE
          /\ UNCHANGED executablePath

ProbeCloses == \E p \in ProbeSlots, f \in Features : ProbeClose(p, f)

HasCapabilityDefaultTrue(name) ==
  IF capabilities = NoCaps THEN TRUE ELSE name \in capabilities.flags

\* hasCapability(name): this.capabilities?.[name] ?? false
HasCapability(name) ==
  IF capabilities = NoCaps THEN FALSE ELSE name \in capabilities.flags

CapsNext ==
  \/ UpdateConfigs
  \/ GetCapabilities
  \/ ProbeCloses

\* -------------------------------------------------------------- transport
\* Cap on the transport calls tracked at once. Calls share no state of the
\* client: each execute() closes over its own process and promise.
MaxCalls == 1

CallSlots == 1..MaxCalls
NoCall == [kind |-> "none"]

\* The exit codes explored, and the `null` the close event carries when the
\* process was ended by a signal.
ExitCodes == {0, 1, 2}
NullCode == -1

ExitCodeOfCollapsed(code) == IF code = 0 THEN 0 ELSE 1

\* resolve({ stdout, stderr, exitCode: code ?? 1 })
ExitCodeOf(code) == IF code = NullCode THEN 1 ELSE code

ExecInit ==
  /\ calls = [c \in CallSlots |-> NoCall]
  /\ inflight = {}
  /\ disposed = FALSE

ExecIdle == ExecInit

\* What the caller of execJson / execVoid gets from a resolved execute():
\* the error kinds are told apart by the message of the Error thrown.
Interpret(kind, exitCode, validJson) ==
  IF exitCode # 0 THEN "CommandFailed"
  ELSE IF kind = "json" /\ ~validJson THEN "ParseFailed"
  ELSE "ok"

\* execute(args, opts) as called by execJson (kind "json") or execVoid
\* (kind "void"): the Promise executor. signal is "none" (no opts.signal),
\* "idle" or "aborted"; startable tells whether the OS can start the binary.
Execute(c, kind, signal, startable) ==
  /\ UNCHANGED <<notExecVars, trackVars>>
  /\ calls[c] = NoCall
  /\ \A d \in CallSlots : d < c => calls[d] # NoCall
  /\ calls' = [calls EXCEPT ![c] =
       [kind |-> kind,
        signal |-> signal,
        startable |-> startable,
        proc |-> "running",
        spawns |-> 1,
        killed |-> (signal = "aborted"),
        timedOut |-> FALSE,
        listening |-> (signal = "idle"),
        stdinEnded |-> (signal # "aborted"),
        settled |-> IF signal = "aborted" THEN "rejected" ELSE "pending",
        exitCode |-> NullCode,
        outcome |-> IF signal = "aborted" THEN "Aborted" ELSE "pending",
        firedBeforeClose |-> (signal = "aborted")]]

Executes ==
  \E c \in CallSlots, kind \in {"json", "void"},
     signal \in {"none", "idle", "aborted"}, startable \in BOOLEAN :
    Execute(c, kind, signal, startable)

\* The caller's AbortSignal fires: the listener added by execute() runs
\* proc.kill(). firedBeforeClose records that the signal fired while the
\* child process was still running.
Abort(c) ==
  /\ UNCHANGED <<notExecVars, trackVars>>
  /\ calls[c] # NoCall
  /\ calls[c].signal = "idle"
  /\ calls' = [calls EXCEPT ![c] =
       [@ EXCEPT !.signal = "aborted",
                 !.killed = @ \/ calls[c].listening,
                 !.firedBeforeClose = (calls[c].proc = "running" /\ calls[c].startable)]]

Aborts == \E c \in CallSlots : Abort(c)

\* The spawn option `timeout` expires: the runtime signals the child.
Timeout(c) ==
  /\ UNCHANGED <<notExecVars, trackVars>>
  /\ calls[c] # NoCall
  /\ calls[c].proc = "running"
  /\ calls[c].startable
  /\ ~calls[c].timedOut
  /\ calls' = [calls EXCEPT ![c].timedOut = TRUE]

Timeouts == \E c \in CallSlots : Timeout(c)

SpawnErrorAsExit(c) ==
  /\ UNCHANGED <<notExecVars, trackVars>>
  /\ calls[c] # NoCall
  /\ calls[c].proc = "running"
  /\ ~calls[c].startable
  /\ calls' = [calls EXCEPT ![c] =
       IF calls[c].settled = "pending"
       THEN [@ EXCEPT !.proc = "failed", !.settled = "resolved",
                      !.exitCode = 1, !.outcome = "CommandFailed"]
       ELSE [@ EXCEPT !.proc = "failed"]]

\* proc.on("error"): the process could not be started.
SpawnError(c) ==
  /\ UNCHANGED <<notExecVars, trackVars>>
  /\ calls[c] # NoCall
  /\ calls[c].proc = "running"
  /\ ~calls[c].startable
  /\ calls' = [calls EXCEPT ![c] =
       IF calls[c].settled = "pending"
       THEN [@ EXCEPT !.proc = "failed", !.settled = "rejected",
                      !.outcome = "SpawnFailure"]
       ELSE [@ EXCEPT !.proc = "failed"]]

SpawnErrors == \E c \in CallSlots : SpawnError(c)

ProcCloseRetrying(c, code, validJson) ==
  /\ UNCHANGED <<notExecVars, trackVars>>
  /\ calls[c] # NoCall
  /\ calls[c].proc = "running"
  /\ calls[c].startable
  /\ code = NullCode => (calls[c].killed \/ calls[c].timedOut)
  /\ calls' = [calls EXCEPT ![c] =
       IF calls[c].settled = "pending" /\ ExitCodeOf(code) # 0 /\ calls[c].spawns < 2
       THEN [@ EXCEPT !.spawns = @ + 1]
       ELSE IF calls[c].settled = "pending"
       THEN [@ EXCEPT !.proc = "closed", !.settled = "resolved",
                      !.exitCode = ExitCodeOf(code),
                      !.outcome = Interpret(calls[c].kind, ExitCodeOf(code), validJson)]
       ELSE [@ EXCEPT !.proc = "closed"]]

\* proc.on("close"): the process has ended with `code`, which is null
\* (NullCode) when a signal ended it; execJson / execVoid then interpret the
\* raw result.
ProcClose(c, code, validJson) ==
  /\ UNCHANGED <<notExecVars, trackVars>>
  /\ calls[c] # NoCall
  /\ calls[c].proc = "running"
  /\ calls[c].startable
  /\ code = NullCode => (calls[c].killed \/ calls[c].timedOut)
  /\ calls' = [calls EXCEPT ![c] =
       IF calls[c].settled = "pending"
       THEN [@ EXCEPT !.proc = "closed", !.settled = "resolved",
                      !.exitCode = ExitCodeOf(code),
                      !.outcome = Interpret(calls[c].kind, ExitCodeOf(code), validJson)]
       ELSE [@ EXCEPT !.proc = "closed"]]

ProcCloses ==
  \E c \in CallSlots, code \in ExitCodes \cup {NullCode}, validJson \in BOOLEAN :
    ProcClose(c, code, validJson)

\* The caller has taken the outcome and the process is gone: the call is
\* forgotten (its signal may fire later, to no effect on the client).
Forget(c) ==
  /\ UNCHANGED <<notExecVars, trackVars>>
  /\ calls[c] # NoCall
  /\ calls[c].settled # "pending"
  /\ calls[c].proc # "running"
  /\ \A d \in CallSlots : d > c => calls[d] = NoCall
  /\ calls' = [calls EXCEPT ![c] = NoCall]

Forgets == \E c \in CallSlots : Forget(c)

\* for (const proc of this.inflight.values()) proc.kill(): the processes
\* that dispose() signals. No code of the client adds to the map, so it is
\* empty whenever dispose() runs.
KillInflight(procs, tracked) ==
  [c \in DOMAIN procs |->
     IF c \in tracked /\ procs[c] # NoCall
     THEN [procs[c] EXCEPT !.killed = TRUE]
     ELSE procs[c]]

\* dispose(): kill what the inflight map holds, then clear the map. The
\* host disposes the client once, on deactivation.
Dispose ==
  /\ UNCHANGED notExecVars
  /\ ~disposed
  /\ calls' = KillInflight(calls, inflight)
  /\ inflight' = {}
  /\ disposed' = TRUE

ExecNext ==
  \/ Executes
  \/ Aborts
  \/ Timeouts
  \/ SpawnErrors
  \/ ProcCloses
  \/ Forgets
  \/ Dispose

\* ------------------------------------------------------ probe outcomes
\* How the process of a probe can end: with an exit code, by failing to
\* spawn, or by being signalled when the probe's 5 s timeout expires.
ProbeEnds == {"exit0", "exit1", "exit2", "spawnError", "timeout"}

\* The code the close event carries for a process that ends as `end`.
CloseCode(end) ==
  IF end = "exit0" THEN 0
  ELSE IF end = "exit1" THEN 1
  ELSE IF end = "exit2" THEN 2
  ELSE NullCode

\* execute(args, { timeout: 5_000 }) for a process that ends as `end`: the
\* error event rejects, the close event resolves with exitCode: code ?? 1.
ExecuteEnd(end) ==
  IF end = "spawnError"
  THEN [settled |-> "rejected", exitCode |-> NullCode]
  ELSE [settled |-> "resolved", exitCode |-> ExitCodeOf(CloseCode(end))]

ProbeOutcomeUncaught(end) ==
  LET result == ExecuteEnd(end)
  IN  IF result.settled = "rejected"
      THEN [settled |-> "rejected", value |-> FALSE]
      ELSE [settled |-> "resolved", value |-> (result.exitCode = 0)]

\* probe(args): try { return (await execute(...)).exitCode === 0 }
\* catch { return false }
ProbeOutcome(end) ==
  LET result == ExecuteEnd(end)
  IN  IF result.settled = "rejected"
      THEN [settled |-> "resolved", value |-> FALSE]
      ELSE [settled |-> "resolved", value |-> (result.exitCode = 0)]

NoOutcome == [settled |-> "pending", flags |-> {}]

\* probeAll(): Promise.all and the await of the oracle probe reject when a
\* probe rejects; otherwise the set of the features whose probe gave true.
ProbeAllOutcome(ends) ==
  IF \E f \in Features : ProbeOutcome(ends[f]).settled = "rejected"
  THEN [settled |-> "rejected", flags |-> {}]
  ELSE [settled |-> "resolved",
        flags |-> {f \in Features : ProbeOutcome(ends[f]).value}]

ProbeInit ==
  /\ probeEnds \in [Features -> ProbeEnds]
  /\ probeAllSettled = NoOutcome

\* this.capabilities = await this.capabilityProbe: the probe-all whose
\* processes end as probeEnds settles, and getCapabilities with it.
ProbeAllSettle ==
  /\ UNCHANGED notProbeVars
  /\ probeAllSettled = NoOutcome
  /\ probeAllSettled' = ProbeAllOutcome(probeEnds)
  /\ UNCHANGED probeEnds

ProbeNext == ProbeAllSettle

\* ------------------------------------------------- one call's environment
\* The environment variables at stake, and one the client does not set.
EnvNames == {"NO_COLOR", "LC_ALL", "PATH"}
Unset == "<unset>"
Platforms == {"linux", "darwin", "win32"}

\* The values the extension host may have inherited for a variable.
InheritedValues(name) ==
  IF name = "NO_COLOR" THEN {Unset, "0", "1"}
  ELSE IF name = "LC_ALL" THEN {Unset, "en_US.UTF-8", "C"}
  ELSE {"/usr/bin"}

ProcessEnvs ==
  {[name \in EnvNames |->
      IF name = "NO_COLOR" THEN noColor
      ELSE IF name = "LC_ALL" THEN lcAll
      ELSE "/usr/bin"] :
     noColor \in InheritedValues("NO_COLOR"), lcAll \in InheritedValues("LC_ALL")}

\* const CLI_ENV = { NO_COLOR: "1", ...(platform !== "win32" ? { LC_ALL: "C" } : {}) }
CLI_ENV(os) ==
  [name \in EnvNames |->
     IF name = "NO_COLOR" THEN "1"
     ELSE IF name = "LC_ALL" /\ os # "win32" THEN "C"
     ELSE Unset]

SpreadBaseWins(base, over) ==
  [name \in EnvNames |-> IF base[name] # Unset THEN base[name] ELSE over[name]]

\* { ...base, ...over }: a key of `over` replaces the same key of `base`.
Spread(base, over) ==
  [name \in EnvNames |-> IF over[name] # Unset THEN over[name] ELSE base[name]]

NoEnv == [name \in EnvNames |-> "<not spawned>"]

\* ------------------------------------------------ one call's interpretation
\* result.stdout.slice(0, 200)
PreviewLen == 200
\* How far past the preview length the explored outputs go.
MaxOver == 1

Repeat(ch, n) == [i \in 1..n |-> ch]

\* The output texts explored, as sequences of characters: text that is no
\* JSON, and the JSON object text "{", blanks, "}".
Garbage(n) == Repeat("x", n)
ObjectText(n) ==
  [i \in 1..n |-> IF i = 1 THEN "{" ELSE IF i = n THEN "}" ELSE " "]

TextLens == {2, PreviewLen} \cup {PreviewLen + k : k \in 1..MaxOver}
Stdouts == {<<>>} \cup {Garbage(n) : n \in TextLens}
                  \cup {ObjectText(n) : n \in TextLens}
Stderrs == {<<>>, Repeat("e", 3)}

\* JSON.parse(text) on the texts explored: an object text parses to the
\* empty object, anything else (the empty text included) throws.
JSONParse(text) ==
  IF /\ Len(text) >= 2
     /\ text[1] = "{"
     /\ text[Len(text)] = "}"
     /\ \A i \in 2..(Len(text) - 1) : text[i] = " "
  THEN [ok |-> TRUE, value |-> "{}"]
  ELSE [ok |-> FALSE, value |-> "SyntaxError"]

SliceWhole(text, end) == text

\* text.slice(0, end)
Slice(text, end) == SubSeq(text, 1, Min(Len(text), end))

\* What execute() can settle with: a raw result for every exit code, or a
\* rejection (spawn failure, signal already aborted at the call).
RawResults ==
  {[settled |-> "resolved", error |-> "none", exitCode |-> e, stdout |-> o,
    stderr |-> r] : e \in ExitCodes, o \in Stdouts, r \in Stderrs}
  \cup {[settled |-> "rejected", error |-> k, exitCode |-> NullCode,
         stdout |-> <<>>, stderr |-> <<>>] : k \in {"SpawnFailure", "Aborted"}}

Unsettled == [kind |-> "pending", exitCode |-> NullCode, text |-> <<>>, value |-> "none"]

\* The rejection of execute() passes through an awaiting caller unchanged.
Rethrow(r) == [kind |-> r.error, exitCode |-> NullCode, text |-> <<>>, value |-> "none"]

ExecJsonParseFirst(r) ==
  IF r.settled = "rejected" THEN Rethrow(r)
  ELSE IF JSONParse(r.stdout).ok
  THEN [kind |-> "ok", exitCode |-> r.exitCode, text |-> <<>>,
        value |-> JSONParse(r.stdout).value]
  ELSE IF r.exitCode # 0
  THEN [kind |-> "CommandFailed", exitCode |-> r.exitCode,
        text |-> IF r.stderr # <<>> THEN r.stderr ELSE r.stdout, value |-> "none"]
  ELSE [kind |-> "ParseFailed", exitCode |-> r.exitCode,
        text |-> Slice(r.stdout, PreviewLen), value |-> "none"]

\* execJson(args, opts), after its await of execute(): the kind of the
\* outcome is told by the message of the Error thrown; text is what the
\* message carries after its fixed prefix.
ExecJson(r) ==
  IF r.settled = "rejected" THEN Rethrow(r)
  ELSE IF r.exitCode # 0
  THEN [kind |-> "CommandFailed", exitCode |-> r.exitCode,
        text |-> IF r.stderr # <<>> THEN r.stderr ELSE r.stdout, value |-> "none"]
  ELSE IF JSONParse(r.stdout).ok
  THEN [kind |-> "ok", exitCode |-> r.exitCode, text |-> <<>>,
        value |-> JSONParse(r.stdout).value]
  ELSE [kind |-> "ParseFailed", exitCode |-> r.exitCode,
        text |-> Slice(r.stdout, PreviewLen), value |-> "none"]

\* execVoid(args, opts), after its await of execute().
ExecVoid(r) ==
  IF r.settled = "rejected" THEN Rethrow(r)
  ELSE IF r.exitCode # 0
  THEN [kind |-> "CommandFailed", exitCode |-> r.exitCode,
        text |-> r.stderr, value |-> "none"]
  ELSE [kind |-> "ok", exitCode |-> r.exitCode, text |-> <<>>, value |-> "none"]

RunDoctorViaExecJson(r) == ExecJson(r)

\* runDoctor(): `doctor --json` uses exit code 1 for "findings present".
\* The payload is parsed on exit codes 0 and 1; any other exit code is a
\* CommandFailed as in execJson.
RunDoctor(r) ==
  IF r.settled = "rejected" THEN Rethrow(r)
  ELSE IF r.exitCode \notin {0, 1}
  THEN [kind |-> "CommandFailed", exitCode |-> r.exitCode,
        text |-> IF r.stderr # <<>> THEN r.stderr ELSE r.stdout, value |-> "none"]
  ELSE IF JSONParse(r.stdout).ok
  THEN [kind |-> "ok", exitCode |-> r.exitCode, text |-> <<>>,
        value |-> JSONParse(r.stdout).value]
  ELSE [kind |-> "ParseFailed", exitCode |-> r.exitCode,
        text |-> Slice(r.stdout, PreviewLen), value |-> "none"]

CallInit ==
  /\ processEnv \in ProcessEnvs
  /\ platform \in Platforms
  /\ childEnv = NoEnv
  /\ rawResult \in RawResults
  /\ jsonOutcome = Unsettled
  /\ voidOutcome = Unsettled
  /\ doctorOutcome = Unsettled

\* spawn(..., { ..., env: { ...process.env, ...CLI_ENV } })
Spawn ==
  /\ UNCHANGED notCallVars
  /\ childEnv = NoEnv
  /\ childEnv' = Spread(processEnv, CLI_ENV(platform))
  /\ UNCHANGED <<processEnv, platform, rawResult, jsonOutcome, voidOutcome, doctorOutcome>>

\* An execJson call whose execute() settled with rawResult settles.
ExecJsonSettle ==
  /\ UNCHANGED notCallVars
  /\ jsonOutcome = Unsettled
  /\ jsonOutcome' = ExecJson(rawResult)
  /\ UNCHANGED <<processEnv, platform, childEnv, rawResult, voidOutcome, doctorOutcome>>

\* An execVoid call whose execute() settled with rawResult settles.
ExecVoidSettle ==
  /\ UNCHANGED notCallVars
  /\ voidOutcome = Unsettled
  /\ voidOutcome' = ExecVoid(rawResult)
  /\ UNCHANGED <<processEnv, platform, childEnv, rawResult, jsonOutcome, doctorOutcome>>

\* A runDoctor call whose execute() settled with rawResult settles.
RunDoctorSettle ==
  /\ UNCHANGED notCallVars
  /\ doctorOutcome = Unsettled
  /\ doctorOutcome' = RunDoctor(rawResult)
  /\ UNCHANGED <<processEnv, platform, childEnv, rawResult, jsonOutcome, voidOutcome>>

CallNext ==
  \/ Spawn
  \/ ExecJsonSettle
  \/ ExecVoidSettle
  \/ RunDoctorSettle

\* The state of a part while a specification of another part runs: the
\* defaults of the settings, nothing started.

\* ===================================================== realtime checker
\* Time is a discrete clock. A host timer fires when the clock reaches its
\* deadline, before any other handler runs at that instant, and the clock
\* does not pass a deadline that has not fired.

\* Latest clock value explored.
MaxTime == 4
\* Cap on the checkNow calls recorded for one burst (the code has none).
MaxChecksLogged == 1

NoTime == -1
\* The values of governor.realtimeChecking.debounceMs explored, in ticks.
DebounceChoices == {1, 2}

\* The documents of the session: uri, languageId and uri.scheme.
Docs == {"file:///a.ts", "file:///b.json", "untitled:c.ts"}
LanguageId(d) == IF d = "file:///b.json" THEN "json" ELSE "typescript"
Scheme(d) == IF d = "untitled:c.ts" THEN "untitled" ELSE "file"

\* The document whose bursts the history variables follow.
Watched == "file:///a.ts"

\* The values of governor.realtimeChecking.excludedLanguages explored: the
\* default list (of which only json occurs here) and the empty list.
ExcludedChoices == {{"json", "yaml", "markdown", "plaintext"}, {}}

\* Whether document.getText().length > 100_000, an input of each change.
TextSizes == {"small", "large"}

\* shouldCheck(document).
ShouldCheck(d, size, excluded) ==
  /\ LanguageId(d) \notin excluded
  /\ Scheme(d) = "file"
  /\ size # "large"

TimerOf(d, handle) == [doc |-> d, deadline |-> handle]

\* clearTimeout(handle): clearing no handle, or a fired one, does nothing.
ClearTimeout(queue, d, handle) == queue \ {TimerOf(d, handle)}

\* The loop over pendingChecks.values() left out: no timer is cleared.
ClearAllSkipped(queue, pend) == queue

\* clearTimeout of every value of pendingChecks (dispose, setEnabled(false)).
ClearAll(queue, pend) == queue \ {TimerOf(d, pend[d]) : d \in Docs}

NoPending == [d \in Docs |-> NoTime]

\* scheduleCheck without the clearTimeout(existing): the superseded timer
\* stays in the host's queue.
ScheduleCheckKeepingOld(queue, pend, d, ms, t) ==
  queue \cup {TimerOf(d, t + ms)}

\* scheduleCheck(document): the host's timer queue afterwards.
ScheduleCheck(queue, pend, d, ms, t) ==
  ClearTimeout(queue, d, pend[d]) \cup {TimerOf(d, t + ms)}

\* A started check: when, and by what.
CheckStart(t, by) == [at |-> t, by |-> by]

\* runCheck(document): returns at once for a closed document, else calls
\* checkFunction; TRUE when the check is started.
RunCheck(d, closed) == ~closed[d]

\* The history of started checks after runCheck(d): a started check of the
\* watched document is recorded once the document has had a burst.
Recorded(log, last, d, closed, t, by) ==
  IF d = Watched /\ RunCheck(d, closed) /\ last # NoTime
  THEN Append(log, CheckStart(t, by))
  ELSE log

\* The history flag after an operation that cancels the timers of the
\* documents in ds, or closes them: set when the watched document is among
\* them with its timer pending.
CutShort(flag, pend, ds) ==
  flag \/ (Watched \in ds /\ pend[Watched] # NoTime)

\* No timer is due at this instant.
TimersSettled == \A t \in timerQueue : t.deadline > now

\* constructor: subscribes and calls updateConfig(), which reads the three
\* settings.
RtInit ==
  /\ enabled \in BOOLEAN
  /\ debounceMs \in DebounceChoices
  /\ excludedLanguages \in ExcludedChoices
  /\ pendingChecks = NoPending
  /\ subscribed = TRUE
  /\ timerQueue = {}
  /\ now = 0
  /\ isClosed = [d \in Docs |-> FALSE]
  /\ burstLast = NoTime
  /\ burstDue = NoTime
  /\ burstMany = FALSE
  /\ checks = <<>>
  /\ interrupted = FALSE

\* onDidChangeTextDocument: if (this.enabled && this.shouldCheck(document))
\* scheduleCheck(document). The history records a change of the watched
\* document made while the checker is enabled and the document eligible:
\* the change continues the burst when it arrives before burstDue, and
\* begins a new burst otherwise.
TextChange ==
  \E d \in Docs, size \in TextSizes :
    LET accepted == enabled /\ ShouldCheck(d, size, excludedLanguages)
        continues == burstLast # NoTime /\ now < burstDue
    IN
    /\ subscribed
    /\ TimersSettled
    /\ ~isClosed[d]
    /\ IF accepted
       THEN /\ timerQueue' =
                 ScheduleCheck(timerQueue, pendingChecks, d, debounceMs, now)
            /\ pendingChecks' = [pendingChecks EXCEPT ![d] = now + debounceMs]
       ELSE UNCHANGED <<timerQueue, pendingChecks>>
    /\ IF accepted /\ d = Watched
       THEN /\ burstLast' = now
            /\ burstDue' = now + debounceMs
            /\ burstMany' = continues
            /\ checks' = IF continues THEN checks ELSE <<>>
            /\ interrupted' = (continues /\ interrupted)
       ELSE UNCHANGED <<burstLast, burstDue, burstMany, checks, interrupted>>
    /\ UNCHANGED <<enabled, debounceMs, excludedLanguages, subscribed, now,
                   isClosed>>
    /\ UNCHANGED notRtVars

\* The timer callback: pendingChecks.delete(key); runCheck(document).
TimerFire ==
  \E t \in timerQueue :
    /\ t.deadline = now
    /\ timerQueue' = timerQueue \ {t}
    /\ pendingChecks' = [pendingChecks EXCEPT ![t.doc] = NoTime]
    /\ checks' = Recorded(checks, burstLast, t.doc, isClosed, now, "timer")
    /\ UNCHANGED <<enabled, debounceMs, excludedLanguages, subscribed, now,
                   isClosed, burstLast, burstDue, burstMany,
                   interrupted>>
    /\ UNCHANGED notRtVars

\* The clock advances.
Tick ==
  /\ now < MaxTime
  /\ TimersSettled
  /\ now' = now + 1
  /\ UNCHANGED <<enabled, debounceMs, excludedLanguages, pendingChecks,
                 subscribed, timerQueue, isClosed, burstLast, burstDue, burstMany,
                 checks, interrupted>>
  /\ UNCHANGED notRtVars

\* onDidChangeConfiguration affecting governor.realtimeChecking:
\* updateConfig() re-reads the three settings and touches nothing else.
RtUpdateConfig ==
  \E e \in BOOLEAN, ms \in DebounceChoices, ex \in ExcludedChoices :
    /\ subscribed
    /\ TimersSettled
    /\ <<e, ms, ex>> # <<enabled, debounceMs, excludedLanguages>>
    /\ enabled' = e
    /\ debounceMs' = ms
    /\ excludedLanguages' = ex
    /\ UNCHANGED <<pendingChecks, subscribed, timerQueue, now, isClosed,
                   burstLast, burstDue, burstMany, checks, interrupted>>
    /\ UNCHANGED notRtVars

\* setEnabled(e): returns when nothing changes; writes the setting; when
\* disabling, clears every pending timer. The configuration event that the
\* write raises re-reads the value just written.
SetEnabled ==
  \E e \in BOOLEAN :
    /\ TimersSettled
    /\ enabled # e
    /\ enabled' = e
    /\ IF e
       THEN UNCHANGED <<pendingChecks, timerQueue, interrupted>>
       ELSE /\ timerQueue' = ClearAll(timerQueue, pendingChecks)
            /\ pendingChecks' = NoPending
            /\ interrupted' = CutShort(interrupted, pendingChecks, Docs)
    /\ UNCHANGED <<debounceMs, excludedLanguages, subscribed, now, isClosed,
                   burstLast, burstDue, burstMany, checks>>
    /\ UNCHANGED notRtVars

\* checkNow(document): cancels the document's pending timer and runs the
\* check at once.
CheckNow ==
  \E d \in Docs :
    /\ TimersSettled
    /\ Len(checks) < MaxChecksLogged
    /\ timerQueue' = ClearTimeout(timerQueue, d, pendingChecks[d])
    /\ pendingChecks' = [pendingChecks EXCEPT ![d] = NoTime]
    /\ checks' = Recorded(checks, burstLast, d, isClosed, now, "checkNow")
    /\ interrupted' = CutShort(interrupted, pendingChecks, {d})
    /\ UNCHANGED <<enabled, debounceMs, excludedLanguages, subscribed, now,
                   isClosed, burstLast, burstDue, burstMany>>
    /\ UNCHANGED notRtVars

\* The editor closes a document: its TextDocument object reports isClosed
\* from then on and gets no further change events.
CloseDocument ==
  \E d \in Docs :
    /\ TimersSettled
    /\ ~isClosed[d]
    /\ isClosed' = [isClosed EXCEPT ![d] = TRUE]
    /\ interrupted' = CutShort(interrupted, pendingChecks, {d})
    /\ UNCHANGED <<enabled, debounceMs, excludedLanguages, pendingChecks,
                   subscribed, timerQueue, now, burstLast, burstDue, burstMany, checks>>
    /\ UNCHANGED notRtVars

\* dispose(): clears every pending timer and drops the subscriptions.
RtDispose ==
  /\ subscribed
  /\ TimersSettled
  /\ timerQueue' = ClearAll(timerQueue, pendingChecks)
  /\ pendingChecks' = NoPending
  /\ subscribed' = FALSE
  /\ interrupted' = CutShort(interrupted, pendingChecks, Docs)
  /\ UNCHANGED <<enabled, debounceMs, excludedLanguages, now, isClosed,
                 burstLast, burstDue, burstMany, checks>>
  /\ UNCHANGED notRtVars

RtNext ==
  \/ TextChange
  \/ TimerFire
  \/ Tick
  \/ RtUpdateConfig
  \/ SetEnabled
  \/ CheckNow
  \/ CloseDocument
  \/ RtDispose

\* getPendingCount().
GetPendingCount == Cardinality({d \in Docs : pendingChecks[d] # NoTime})

\* ========================================================== hover cache
\* private readonly cacheTtlMs = 5000
cacheTtlMs == 5000
\* The clock advances in steps of half the cache lifetime.
ClockStepMs == 2500
\* Latest clock value explored, in clock steps.
MaxHoverSteps == 3
\* Cap on the fetchState() calls in flight at once (the code has none).
MaxFetches == 2
\* Cap on the invalidateCache() calls (the code has none).
MaxInvalidations == 2

NoState == [fetched |-> FALSE]

\* A state object returned by fetchState(). Its content is abstracted to
\* two history tags: the number of invalidateCache() calls made before its
\* fetch was invoked, and whether another fetch was invoked, with no
\* invalidation between, while its fetch was pending and less than
\* cacheTtlMs after it was invoked.
StateObject(f) == [fetched |-> TRUE, epoch |-> f.epoch, dup |-> f.dup]

\* getState(): this.cachedState && now - this.lastFetch < this.cacheTtlMs
CacheFresh(cached, last, t) == cached # NoState /\ t - last < cacheTtlMs

Now == hoverClock * ClockStepMs

\* After construction. The clock starts a cache lifetime after time 0
\* (Date.now() is far larger than cacheTtlMs).
HoverInit ==
  /\ cachedState = NoState
  /\ lastFetch = 0
  /\ fetches = <<>>
  /\ hoverClock = 2
  /\ epoch = 0
  /\ lastHover = [kind |-> "none"]

\* The pending fetches after one more fetchState() is invoked: those of the
\* same epoch that are still within cacheTtlMs of their start now have a
\* duplicate.
MarkDuplicated(fs, t, e) ==
  [i \in 1..Len(fs) |->
     IF fs[i].epoch = e /\ t - fs[i].startedAt < cacheTtlMs
     THEN [fs[i] EXCEPT !.dup = TRUE]
     ELSE fs[i]]

\* provideHover() on a word, up to the await in getState(): the cached
\* state is served, or fetchState() is invoked.
ProvideHover ==
  /\ IF CacheFresh(cachedState, lastFetch, Now)
     THEN /\ lastHover' = [kind |-> "hit", stateEpoch |-> cachedState.epoch,
                           requestEpoch |-> epoch]
          /\ UNCHANGED fetches
     ELSE /\ Len(fetches) < MaxFetches
          /\ fetches' = Append(MarkDuplicated(fetches, Now, epoch),
                               [startedAt |-> Now, epoch |-> epoch,
                                dup |-> FALSE])
          /\ lastHover' = [kind |-> "fetch", stateEpoch |-> epoch,
                           requestEpoch |-> epoch]
  /\ UNCHANGED <<cachedState, lastFetch, hoverClock, epoch>>
  /\ UNCHANGED notHoverVars

\* getState() after its await, fetchState() having resolved:
\* this.cachedState = <result>; this.lastFetch = now (the time read before
\* the await).
FetchResolve ==
  \E i \in 1..MaxFetches :
    /\ i <= Len(fetches)
    /\ cachedState' = StateObject(fetches[i])
    /\ lastFetch' = fetches[i].startedAt
    /\ fetches' = RemoveAt(fetches, i)
    /\ UNCHANGED <<hoverClock, epoch, lastHover>>
    /\ UNCHANGED notHoverVars

\* getState() after its await, fetchState() having rejected: catch, return
\* null.
FetchReject ==
  \E i \in 1..MaxFetches :
    /\ i <= Len(fetches)
    /\ fetches' = RemoveAt(fetches, i)
    /\ UNCHANGED <<cachedState, lastFetch, hoverClock, epoch, lastHover>>
    /\ UNCHANGED notHoverVars

\* invalidateCache().
InvalidateCache ==
  /\ epoch < MaxInvalidations
  /\ cachedState' = NoState
  /\ lastFetch' = 0
  /\ epoch' = epoch + 1
  /\ UNCHANGED <<fetches, hoverClock, lastHover>>
  /\ UNCHANGED notHoverVars

\* dispose(): this.cachedState = null.
HoverDispose ==
  /\ cachedState # NoState
  /\ cachedState' = NoState
  /\ UNCHANGED <<lastFetch, fetches, hoverClock, epoch, lastHover>>
  /\ UNCHANGED notHoverVars

\* Date.now() advances.
HoverTick ==
  /\ hoverClock < MaxHoverSteps + 2
  /\ hoverClock' = hoverClock + 1
  /\ UNCHANGED <<cachedState, lastFetch, fetches, epoch, lastHover>>
  /\ UNCHANGED notHoverVars

HoverNext ==
  \/ ProvideHover
  \/ FetchResolve
  \/ FetchReject
  \/ InvalidateCache
  \/ HoverDispose
  \/ HoverTick

HoverIdle == HoverInit

\* =================================================== check results
\* The checks of the watched document, an eligible one, while real-time
\* checking stays enabled and the checker is not disposed. Timers are
\* abstracted to pending / fired.

\* Cap on the number of edits of the document (the code has none).
MaxEdits == 2

NoDelivery == [made |-> FALSE]
Versions == 0..MaxEdits

RunInit ==
  /\ docVersion = 0
  /\ docDirty = FALSE
  /\ docClosed = FALSE
  /\ editing = TRUE
  /\ debouncePending = FALSE
  /\ runningChecks = {}
  /\ checked = {}
  /\ succeeded = {}
  /\ delivered = {}
  /\ lastDelivery = NoDelivery

\* runCheck(document) after its await:
\* if (document.isClosed || document.isDirty) return; else the result goes
\* to updateFindings and onResult.
Delivers(closed, dirty) == ~(closed \/ dirty)

\* The user types: the content changes, the document is dirty, and the
\* change event schedules a check (replacing the pending timer).
EditDocument ==
  /\ editing
  /\ ~docClosed
  /\ docVersion < MaxEdits
  /\ docVersion' = docVersion + 1
  /\ docDirty' = TRUE
  /\ debouncePending' = TRUE
  /\ UNCHANGED <<docClosed, editing, runningChecks, checked, succeeded, delivered,
                 lastDelivery>>
  /\ UNCHANGED notRunVars

\* The user (or auto-save) saves: the document is no longer dirty. The
\* editor raises onDidChangeTextDocument for the change of the dirty state
\* as well, which schedules a check.
SaveDocument ==
  /\ editing
  /\ ~docClosed
  /\ docDirty
  /\ docDirty' = FALSE
  /\ debouncePending' = TRUE
  /\ UNCHANGED <<docVersion, docClosed, editing, runningChecks, checked, succeeded,
                 delivered, lastDelivery>>
  /\ UNCHANGED notRunVars

\* The editor closes the document.
CloseEdited ==
  /\ editing
  /\ ~docClosed
  /\ docClosed' = TRUE
  /\ UNCHANGED <<docVersion, docDirty, editing, debouncePending, runningChecks,
                 checked, succeeded, delivered, lastDelivery>>
  /\ UNCHANGED notRunVars

\* The user stops editing and leaves the document as it is.
StopEditing ==
  /\ editing
  /\ editing' = FALSE
  /\ UNCHANGED <<docVersion, docDirty, docClosed, debouncePending, runningChecks,
                 checked, succeeded, delivered, lastDelivery>>
  /\ UNCHANGED notRunVars

\* The started checks after runCheck(document) has read the content and
\* called checkFunction, if it has.
Started(set, closed, version) ==
  IF RunCheck(Watched, [d \in Docs |-> closed]) THEN set \cup {version}
  ELSE set

\* The debounce timer fires: pendingChecks.delete(key); runCheck(document),
\* up to its await.
DebounceFire ==
  /\ debouncePending
  /\ debouncePending' = FALSE
  /\ runningChecks' = Started(runningChecks, docClosed, docVersion)
  /\ checked' = Started(checked, docClosed, docVersion)
  /\ UNCHANGED <<docVersion, docDirty, docClosed, editing, succeeded,
                 delivered, lastDelivery>>
  /\ UNCHANGED notRunVars

\* checkNow(document), up to the await in runCheck.
ManualCheck ==
  /\ editing
  /\ docVersion \notin runningChecks
  /\ debouncePending' = FALSE
  /\ runningChecks' = Started(runningChecks, docClosed, docVersion)
  /\ checked' = Started(checked, docClosed, docVersion)
  /\ UNCHANGED <<docVersion, docDirty, docClosed, editing, succeeded,
                 delivered, lastDelivery>>
  /\ UNCHANGED notRunVars

\* checkFunction resolves with the result for version v, and runCheck goes
\* on after its await.
CheckResolves ==
  \E v \in runningChecks :
    /\ runningChecks' = runningChecks \ {v}
    /\ succeeded' = succeeded \cup {v}
    /\ IF Delivers(docClosed, docDirty)
       THEN /\ delivered' = delivered \cup {v}
            /\ lastDelivery' =
                 [made |-> TRUE, result |-> v, content |-> docVersion]
       ELSE UNCHANGED <<delivered, lastDelivery>>
    /\ UNCHANGED <<docVersion, docDirty, docClosed, editing, debouncePending,
                   checked>>
    /\ UNCHANGED notRunVars

\* checkFunction rejects: the error is logged.
CheckRejects ==
  \E v \in runningChecks :
    /\ runningChecks' = runningChecks \ {v}
    /\ UNCHANGED <<docVersion, docDirty, docClosed, editing, debouncePending,
                   checked, succeeded, delivered, lastDelivery>>
    /\ UNCHANGED notRunVars

CheckSettles == CheckResolves \/ CheckRejects

RunNext ==
  \/ EditDocument
  \/ SaveDocument
  \/ CloseEdited
  \/ StopEditing
  \/ DebounceFire
  \/ ManualCheck
  \/ CheckResolves
  \/ CheckRejects

RunIdle == RunInit

RtIdle ==
  /\ enabled = FALSE
  /\ debounceMs = 1
  /\ excludedLanguages = {}
  /\ RtInit

PollIdle ==
  /\ backgroundEnabled = TRUE /\ correlatorEnabled = TRUE
  /\ captureThresholdCfg = MaxThresholdCfg /\ clearThresholdCfg = MaxThresholdCfg
  /\ isTrusted = TRUE
  /\ PollInit

CapsIdle ==
  /\ executablePath = "governor"
  /\ CapsInit

ProbeIdle ==
  /\ probeEnds = [f \in Features |-> "exit0"]
  /\ ProbeInit

CallIdle ==
  /\ processEnv = [name \in EnvNames |-> IF name = "PATH" THEN "/usr/bin" ELSE Unset]
  /\ platform = "linux"
  /\ rawResult = [settled |-> "resolved", error |-> "none", exitCode |-> 0,
                  stdout |-> ObjectText(2), stderr |-> <<>>]
  /\ CallInit

InitPoll ==
  RunIdle /\ HoverIdle /\ RtIdle /\ CapsIdle /\ ExecIdle /\ ProbeIdle /\ CallIdle /\ PollInit
SpecPoll == InitPoll /\ [][PollNext]_vars

InitCaps ==
  RunIdle /\ HoverIdle /\ RtIdle /\ PollIdle /\ ExecIdle /\ ProbeIdle /\ CallIdle /\ CapsInit
SpecCaps == InitCaps /\ [][CapsNext]_vars

InitExec ==
  RunIdle /\ HoverIdle /\ RtIdle /\ PollIdle /\ CapsIdle /\ ProbeIdle /\ CallIdle /\ ExecInit
SpecExec == InitExec /\ [][ExecNext]_vars

InitProbe ==
  RunIdle /\ HoverIdle /\ RtIdle /\ PollIdle /\ CapsIdle /\ ExecIdle /\ CallIdle /\ ProbeInit
SpecProbe == InitProbe /\ [][ProbeNext]_vars

InitCall ==
  RunIdle /\ HoverIdle /\ RtIdle /\ PollIdle /\ CapsIdle /\ ExecIdle /\ ProbeIdle /\ CallInit
SpecCall == InitCall /\ [][CallNext]_vars

InitRealtime ==
  RunIdle /\ HoverIdle /\ PollIdle /\ CapsIdle /\ ExecIdle /\ ProbeIdle /\ CallIdle /\ RtInit
SpecRealtime == InitRealtime /\ [][RtNext]_vars

InitHover ==
  RunIdle /\ RtIdle /\ PollIdle /\ CapsIdle /\ ExecIdle /\ ProbeIdle /\ CallIdle /\ HoverInit
SpecHover == InitHover /\ [][HoverNext]_vars

InitRun ==
  HoverIdle /\ RtIdle /\ PollIdle /\ CapsIdle /\ ExecIdle /\ ProbeIdle
    /\ CallIdle /\ RunInit
SpecRun == InitRun /\ [][RunNext]_vars

\* The host fires a timer that is due, and a check function that was called
\* settles (the transport's timeout ends its process).
SpecRunFair ==
  /\ InitRun
  /\ [][RunNext]_vars
  /\ WF_vars(DebounceFire)
  /\ WF_vars(CheckSettles)

\* ------------------------------------------------------------------ claims

\* C1: a poll timer tick that fires while an earlier correlator poll is
\* still pending is skipped: it spawns no process, queues nothing and leaves
\* the running poll alone.
C1_TickSkippedWhilePollPending ==
  [][(PollTimerTick /\ polls # <<>>) => polls' = polls]_vars

\* C2: at most one correlator-status process is in flight, whatever
\* triggered the polls (initial poll, interval tick, manual refresh).
C2_AtMostOnePollInFlight == Len(polls) <= 1

C4_AlertRaisedOnlyAtCaptureThreshold ==
  [][/\ (~captureAlert /\ captureAlert')
          => capturedConsecutive' >= CaptureThreshold'
     /\ (statusBarText # "captured" /\ statusBarText' = "captured")
          => capturedConsecutive' >= CaptureThreshold']_vars

\* C4 witness: the alert is up at the poll where the count reached the
\* default threshold of 3.
C4_Witness ==
  /\ captureAlert
  /\ statusBarText = "captured"
  /\ CaptureThreshold = 3
  /\ capturedConsecutive = CaptureThreshold

\* C5: a poll that fails changes neither hysteresis counter.
C5_FailedPollLeavesCounters ==
  [][(\E i \in 1..MaxPolls : PollSettle(i, "error"))
       => UNCHANGED <<capturedConsecutive, okConsecutive>>]_vars

\* C5 witness: a failed poll was applied in the middle of a run of captured
\* polls (only a failed poll hides the status bar without zeroing the
\* captured counter), and the run went on.
C5_Witness ==
  /\ ~statusBarVisible
  /\ capturedConsecutive >= 2

\* C6: a successful poll increments one counter by one and zeroes the
\* other, and the two counters are never both non-zero.
C6_OneCounterUpOtherZero ==
  /\ [](~(capturedConsecutive > 0 /\ okConsecutive > 0))
  /\ [][\A i \in 1..MaxPolls, o \in PollOutcomes \ {"error"} :
          PollSettle(i, o) =>
            IF o = "captured"
            THEN /\ capturedConsecutive' = capturedConsecutive + 1
                 /\ okConsecutive' = 0
            ELSE /\ okConsecutive' = okConsecutive + 1
                 /\ capturedConsecutive' = 0]_vars

\* C6 witness: the alert had been raised by a run of captured polls and a
\* non-captured poll then zeroed the captured counter.
C6_Witness ==
  /\ captureAlert
  /\ capturedConsecutive = 0
  /\ okConsecutive >= 1

\* C7: a getCapabilities call never returns a capability set probed against
\* an executable path other than the one configured when the call was made.
C7_NoStaleCapabilities ==
  \A i \in 1..Len(capReturns) :
    capReturns[i].caps.mainPath = capReturns[i].calledWith

\* C8: while a probe-all started under the unchanged executable path is
\* pending and nothing is cached, a further getCapabilities call spawns no
\* probe and awaits that probe-all; every caller awaiting a probe-all is
\* handed its result.
C8_ConcurrentCallsShareOneProbe ==
  /\ [][(/\ GetCapabilities
         /\ capabilities = NoCaps
         /\ \E p \in InFlight : ~probeAlls[p].pathChanged)
        => \E p \in InFlight :
             /\ ~probeAlls[p].pathChanged
             /\ probeAlls' = [probeAlls EXCEPT ![p].waiters = Append(@, executablePath)]]_vars
  /\ [][\A p \in InFlight :
          ProbeClose(p, "oracle") =>
            /\ Len(capReturns') = Len(probeAlls[p].waiters)
            /\ \A i \in 1..Len(capReturns') :
                 capReturns'[i].caps =
                   CapabilitySet(probeAlls[p].mainPath, probeAlls[p].oraclePath)]_vars

\* C8 witness: two callers were resumed by the end of one probe-all that saw
\* no path change.
C8_Witness ==
  /\ Len(capReturns) >= 2
  /\ \A i \in 1..Len(capReturns) :
       /\ capReturns[i].calledWith = executablePath
       /\ capReturns[i].caps.mainPath = executablePath
       /\ capReturns[i].caps.oraclePath = executablePath

\* C9: at most one probe-all operation is in flight.
C9_AtMostOneProbeAll == Cardinality(InFlight) <= 1

\* C10: a call whose cancellation signal fired before its child process
\* closed has had the process killed and, once settled, has failed with
\* Aborted.
C10_AbortKillsAndSettlesAborted ==
  \A c \in CallSlots :
    (calls[c] # NoCall /\ calls[c].firedBeforeClose) =>
      /\ calls[c].killed
      /\ calls[c].settled # "pending" => calls[c].outcome = "Aborted"

\* C11: a call whose timeout expired, and whose child process was ended by
\* the timeout's signal, fails with a result unlike that of every call whose
\* process ran to completion and exited with a non-zero code.
C11_TimeoutDistinctFromNonZeroExit ==
  [][\A c \in CallSlots, v \in BOOLEAN :
       (/\ ProcClose(c, NullCode, v)
        /\ calls[c].timedOut
        /\ ~calls[c].killed
        /\ calls[c].settled = "pending")
       => \A e \in ExitCodes \ {0} :
            <<calls'[c].settled, calls'[c].exitCode, calls'[c].outcome>>
              # <<"resolved", ExitCodeOf(e),
                   Interpret(calls[c].kind, ExitCodeOf(e), v)>>]_vars

\* C12: when dispose() returns, every child process started through the
\* client and not yet closed has been signalled to end.
C12_DisposeKillsEveryRunningProcess ==
  [][Dispose =>
       \A c \in CallSlots :
         (calls[c] # NoCall /\ calls[c].proc = "running" /\ calls[c].startable)
           => (calls'[c].killed \/ calls'[c].timedOut)]_vars

\* C20: the close of a started child process resolves a call that is still
\* pending, with the exit code the process ended with, whatever that code
\* is; a call is rejected only by a spawn failure or by a signal that was
\* already aborted when the call was made, never by an exit code.
C20_CloseResolvesForEveryExitCode ==
  /\ [][\A c \in CallSlots, code \in ExitCodes, v \in BOOLEAN :
          (ProcClose(c, code, v) /\ calls[c].settled = "pending")
            => /\ calls'[c].settled = "resolved"
               /\ calls'[c].exitCode = code]_vars
  /\ [][\A c \in CallSlots :
          (/\ calls[c] # NoCall
           /\ calls'[c] # NoCall
           /\ calls[c].settled = "pending"
           /\ calls'[c].settled = "rejected")
          => SpawnError(c)]_vars

\* C20 witness: a call was resolved with exit code 2 by the close of its
\* process.
C20_Witness ==
  \E c \in CallSlots :
    /\ calls[c] # NoCall
    /\ calls[c].proc = "closed"
    /\ calls[c].settled = "resolved"
    /\ calls[c].exitCode = 2

\* C13: after the deactivation cleanup has run, no correlator interval
\* timer is scheduled and every correlator-status process started before it
\* has been killed.
C13_DeactivationLeavesNothingRunning ==
  phase = "disposed" =>
    /\ ~correlatorTimer
    /\ activeTimers = 0
    /\ \A i \in 1..Len(polls) : polls[i] = "killed"

\* C14: while correlator polling is disabled by either setting, no interval
\* timer is scheduled, and no step that leaves it disabled issues a
\* correlator poll.
C14_NoPollWhileDisabled ==
  /\ []((phase = "active" /\ ~PollingEnabled(backgroundEnabled, correlatorEnabled))
          => (~correlatorTimer /\ activeTimers = 0))
  /\ [][(/\ ~PollingEnabled(backgroundEnabled, correlatorEnabled)
         /\ ~PollingEnabled(backgroundEnabled', correlatorEnabled'))
        => Len(polls') <= Len(polls)]_vars

\* C15: while the workspace is untrusted, the automatic preflight has not
\* started, no poll timer is scheduled, and activation, a timer tick or a
\* settings change spawns no correlator-status process (the manual refresh
\* command is not background activity).
C15_NoBackgroundActivityWhileUntrusted ==
  /\ [](~isTrusted => (~preflightStarted /\ ~correlatorTimer /\ activeTimers = 0))
  /\ [][(~isTrusted' /\ (Activate \/ PollTimerTick \/ ConfigChanges))
        => polls' = polls]_vars

\* C16: once a probe-all has settled, and for as long as the executable
\* path has not changed since (updateConfig calls that give no path or the
\* same path included), a getCapabilities call returns the cached set and
\* spawns nothing.
C16_CachedWhilePathUnchanged ==
  [][(GetCapabilities /\ settledSincePathChange)
       => /\ capabilities # NoCaps
          /\ capReturns' = <<[calledWith |-> executablePath,
                              caps |-> capabilities, cached |-> TRUE]>>
          /\ UNCHANGED <<probeAlls, capabilities, capabilityProbe>>]_vars

\* C16 witness: a call was answered from the cache after a probe-all had
\* settled under the current path.
C16_Witness ==
  /\ settledSincePathChange
  /\ Len(capReturns) = 1
  /\ capReturns[1].cached

\* C17: hasCapability answers false for every feature whenever no probe
\* result is cached: before the first probe, while a probe-all is in flight
\* with nothing cached, and right after updateConfig has invalidated the
\* cache for a new executable path.
C17_HasCapabilityFalseWhenNothingCached ==
  /\ [](capabilities = NoCaps => \A f \in Features : HasCapability(f) = FALSE)
  /\ [][(\E newPath \in Paths :
           UpdateConfig(newPath) /\ PathChanged(newPath, executablePath))
        => \A f \in Features : HasCapability(f)' = FALSE]_vars

\* C17 witness: nothing is cached after updateConfig reset the cache fields
\* for a new path, and the probe-all started under the old path is still in
\* flight.
C17_Witness ==
  /\ capabilities = NoCaps
  /\ capabilityProbe = 0
  /\ \E p \in InFlight : probeAlls[p].pathChanged

\* C19: the seven per-feature probes of a probe-all are all spawned by the
\* step that starts it, and no later step of it spawns a probe.
C19_AllProbesStartedTogether ==
  [][\A p \in ProbeSlots :
       /\ (probeAlls[p] = NoProbe /\ probeAlls'[p] # NoProbe)
            => probeAlls'[p].running = Features
       /\ (probeAlls[p] # NoProbe /\ probeAlls'[p] # NoProbe)
            => probeAlls'[p].running \subseteq probeAlls[p].running]_vars

\* C18: a per-feature probe whose process exits non-zero, cannot be spawned
\* or is ended by the probe timeout gives false for its feature, and the
\* probe-all (hence getCapabilities) resolves whatever way its probes end.
C18_FailedProbeYieldsFalse ==
  probeAllSettled # NoOutcome =>
    /\ probeAllSettled.settled = "resolved"
    /\ \A f \in Features :
         probeEnds[f] # "exit0" => f \notin probeAllSettled.flags

\* C18 witness: a probe-all resolved although one probe could not be
\* spawned, one timed out and one exited with code 2, while another probe
\* succeeded.
C18_Witness ==
  /\ probeAllSettled.settled = "resolved"
  /\ probeEnds["preflight"] = "spawnError"
  /\ probeEnds["correlator"] = "timeout"
  /\ probeEnds["scope"] = "exit2"
  /\ probeEnds["oracle"] = "exit0"
  /\ "oracle" \in probeAllSettled.flags

\* C21: a call whose process cannot be started, once settled, has been
\* rejected with SpawnFailure (with Aborted only when its signal was
\* already aborted at the call); CommandFailed is reported only for a
\* process that started, SpawnFailure only for one that did not.
C21_SpawnFailureDistinct ==
  \A c \in CallSlots :
    (calls[c] # NoCall /\ calls[c].settled # "pending") =>
      /\ ~calls[c].startable =>
           /\ calls[c].settled = "rejected"
           /\ calls[c].outcome =
                IF calls[c].killed /\ ~calls[c].listening
                THEN "Aborted" ELSE "SpawnFailure"
      /\ calls[c].outcome = "CommandFailed" => calls[c].startable
      /\ calls[c].outcome = "SpawnFailure" => ~calls[c].startable

\* C21 witness: a call whose process could not be started was rejected with
\* SpawnFailure.
C21_Witness ==
  \E c \in CallSlots :
    /\ calls[c] # NoCall
    /\ ~calls[c].startable
    /\ calls[c].proc = "failed"
    /\ calls[c].outcome = "SpawnFailure"

\* C26: the input stream of the child of every call has been closed.
C26_StdinAlwaysClosed ==
  \A c \in CallSlots : calls[c] # NoCall => calls[c].stdinEnded

\* C27: every call has spawned exactly one child process, whatever became
\* of it.
C27_OneSpawnPerCall ==
  \A c \in CallSlots : calls[c] # NoCall => calls[c].spawns = 1

\* C27 witness: a call failed with exit code 2 and its process has closed,
\* having been spawned once.
C27_Witness ==
  \E c \in CallSlots :
    /\ calls[c] # NoCall
    /\ calls[c].outcome = "CommandFailed"
    /\ calls[c].proc = "closed"
    /\ calls[c].exitCode = 2
    /\ calls[c].spawns = 1

\* C22: whenever the process ended with a non-zero exit code, execJson
\* fails with CommandFailed carrying that exit code and stderr, or stdout
\* when stderr is empty, whether or not stdout is valid JSON.
C22_NonZeroExitIsCommandFailed ==
  (/\ jsonOutcome # Unsettled
   /\ rawResult.settled = "resolved"
   /\ rawResult.exitCode # 0)
  => /\ jsonOutcome.kind = "CommandFailed"
     /\ jsonOutcome.exitCode = rawResult.exitCode
     /\ jsonOutcome.text =
          IF Len(rawResult.stderr) > 0 THEN rawResult.stderr ELSE rawResult.stdout

\* C22 witness: execJson failed with CommandFailed on exit code 2 although
\* stdout was valid JSON, carrying stdout because stderr was empty.
C22_Witness ==
  /\ jsonOutcome.kind = "CommandFailed"
  /\ rawResult.exitCode = 2
  /\ JSONParse(rawResult.stdout).ok
  /\ rawResult.stderr = <<>>
  /\ jsonOutcome.text = rawResult.stdout

\* C23: when the process exited with code 0 and stdout is not valid JSON,
\* execJson fails with ParseFailed carrying the first 200 characters of
\* stdout, or all of it when it is shorter.
C23_ParseFailedCarriesBoundedPrefix ==
  (/\ jsonOutcome # Unsettled
   /\ rawResult.settled = "resolved"
   /\ rawResult.exitCode = 0
   /\ ~JSONParse(rawResult.stdout).ok)
  => /\ jsonOutcome.kind = "ParseFailed"
     /\ Len(jsonOutcome.text) <= 200
     /\ Len(jsonOutcome.text) = Min(Len(rawResult.stdout), 200)
     /\ \A i \in 1..Len(jsonOutcome.text) : jsonOutcome.text[i] = rawResult.stdout[i]

\* C23 witness: execJson failed with ParseFailed on a stdout longer than
\* 200 characters and the failure carries 200 of them.
C23_Witness ==
  /\ jsonOutcome.kind = "ParseFailed"
  /\ Len(rawResult.stdout) > 200
  /\ Len(jsonOutcome.text) = 200

\* C25: on the same result of the transport, execVoid fails exactly when
\* execJson fails for a reason other than parsing, with the same kind, exit
\* code and text, and resolves on exit code 0 whatever stdout holds.
C25_ExecVoidMatchesExecJson ==
  (jsonOutcome # Unsettled /\ voidOutcome # Unsettled) =>
    /\ (rawResult.settled = "resolved" /\ rawResult.exitCode = 0)
         => voidOutcome.kind = "ok"
    /\ jsonOutcome.kind \in {"SpawnFailure", "Aborted", "CommandFailed"}
         => /\ voidOutcome.kind = jsonOutcome.kind
            /\ voidOutcome.exitCode = jsonOutcome.exitCode
            /\ voidOutcome.text = jsonOutcome.text
    /\ voidOutcome.kind # "ok"
         => jsonOutcome.kind \in {"SpawnFailure", "Aborted", "CommandFailed"}

\* C28: the environment given to every spawned child has NO_COLOR=1 and,
\* off Windows, LC_ALL=C, whatever the extension host inherited for them;
\* a variable the client does not set is passed on as inherited.
C28_ChildEnvForced ==
  childEnv # NoEnv =>
    /\ childEnv["NO_COLOR"] = "1"
    /\ platform # "win32" => childEnv["LC_ALL"] = "C"
    /\ childEnv["PATH"] = processEnv["PATH"]

\* C28 witness: a child was spawned off Windows by a host that had
\* inherited other values for both variables.
C28_Witness ==
  /\ childEnv # NoEnv
  /\ platform = "linux"
  /\ processEnv["NO_COLOR"] = "0"
  /\ processEnv["LC_ALL"] = "en_US.UTF-8"
  /\ childEnv["NO_COLOR"] = "1"
  /\ childEnv["LC_ALL"] = "C"

\* C24: for doctor, exit code 1 with valid JSON returns the parsed payload,
\* exit code 1 with invalid JSON fails, and every exit code of 2 or more
\* fails whatever stdout holds.
C24_DoctorExitOneIsFindings ==
  (doctorOutcome # Unsettled /\ rawResult.settled = "resolved") =>
    /\ (rawResult.exitCode = 1 /\ JSONParse(rawResult.stdout).ok)
         => /\ doctorOutcome.kind = "ok"
            /\ doctorOutcome.value = JSONParse(rawResult.stdout).value
    /\ (rawResult.exitCode = 1 /\ ~JSONParse(rawResult.stdout).ok)
         => doctorOutcome.kind \in {"ParseFailed", "CommandFailed"}
    /\ rawResult.exitCode >= 2
         => doctorOutcome.kind = "CommandFailed"

\* C24 witness: doctor exited with code 1 and valid JSON and the payload
\* was returned.
C24_Witness ==
  /\ doctorOutcome.kind = "ok"
  /\ rawResult.exitCode = 1

\* The checks of the watched document that belong to its current burst:
\* those its timers started, and those started otherwise before burstDue.
BurstChecks ==
  SelectSeq(checks, LAMBDA c : c.by = "timer" \/ c.at < burstDue)

\* A burst of changes has started exactly one check, by the timer and at
\* burstDue, once the clock is past burstDue, and none before burstDue.
OneCheckAtDue ==
  /\ now < burstDue => BurstChecks = <<>>
  /\ now = burstDue =>
       BurstChecks \in {<<>>, <<CheckStart(burstDue, "timer")>>}
  /\ now > burstDue => BurstChecks = <<CheckStart(burstDue, "timer")>>

DebouncedCheckStarts ==
  \E t \in timerQueue :
    /\ t.deadline = now
    /\ t \notin timerQueue'
    /\ RunCheck(t.doc, isClosed)

\* C30: while real-time checking is disabled no debounce timer is pending,
\* and no debounced check starts.
C30_DisabledMeansNothingPending ==
  /\ [](~enabled => (GetPendingCount = 0 /\ timerQueue = {}))
  /\ [][DebouncedCheckStarts => enabled]_vars

\* C31: once the checker is disposed no debounce timer is pending, and no
\* timer callback starts a check afterwards.
C31_DisposedMeansNothingPending ==
  /\ [](~subscribed => (GetPendingCount = 0 /\ timerQueue = {}))
  /\ [][~subscribed => ~DebouncedCheckStarts]_vars

\* C31 witness: the checker was disposed while the watched document's timer
\* was pending; the clock is past the time the timer was due and no check
\* was started.
C31_Witness ==
  /\ ~subscribed
  /\ enabled
  /\ burstLast # NoTime
  /\ interrupted
  /\ ~isClosed[Watched]
  /\ now > burstDue
  /\ checks = <<>>

\* C34: while the status bar item is shown, as it is after every successful
\* poll result has been applied, it shows CAPTURED exactly when the capture
\* diagnostic is present.
C34_AlertSurfacesAgree ==
  statusBarVisible => (statusBarText = "captured" <=> captureAlert)

\* C36: the result of a poll issued before a poll whose result has already
\* been applied is never applied.
C36_ResultsAppliedInIssueOrder ==
  [][overtaken' >= overtaken]_vars

\* C37: a poll that completes while no polling timer is set (polling was
\* stopped by a setting or by deactivation) leaves the hysteresis counters,
\* the status bar and the capture diagnostic as they were.
C37_StoppedPollingAppliesNothing ==
  [][(Len(polls') < Len(polls) /\ ~correlatorTimer)
       => UNCHANGED <<capturedConsecutive, okConsecutive, captureAlert,
                      statusBarText, statusBarVisible>>]_vars

\* C38: at most one correlator interval timer is scheduled in the host, and
\* correlatorTimer holds a timer exactly when one is scheduled.
C38_AtMostOneIntervalTimer ==
  /\ activeTimers <= 1
  /\ correlatorTimer <=> (activeTimers = 1)

\* C38 witness: the extension is active in a trusted workspace with polling
\* started and two polls in flight; one timer is scheduled and
\* correlatorTimer holds it.
C38_Witness ==
  /\ phase = "active"
  /\ correlatorTimer
  /\ activeTimers = 1
  /\ Len(polls) >= 2
  /\ isTrusted

\* C32: the state that is cached was fetched by the only fetchState() call
\* of its cache lifetime: no other fetch was invoked while its fetch was
\* pending and within cacheTtlMs of it.
C32_OneFetchPerCacheLifetime ==
  cachedState # NoState => ~cachedState.dup

\* C33: a hover request served from the cache is served state whose fetch
\* was invoked after the latest invalidateCache() before the request.
C33_NoStateFromBeforeInvalidation ==
  lastHover.kind = "hit" => lastHover.stateEpoch = lastHover.requestEpoch

\* C35: whenever a capability set is cached, its seven flags come from
\* probes spawned from one executable path, and capabilitiesProbedFor holds
\* that path.
C35_CachedSetProbedAgainstOnePath ==
  capabilities # NoCaps =>
    /\ capabilities.oraclePath = capabilities.mainPath
    /\ capabilitiesProbedFor = capabilities.mainPath

\* C39: every result delivered to onResult and the findings cache was
\* computed from the content the document has at the delivery.
C39_DeliveredResultIsCurrent ==
  lastDelivery.made => lastDelivery.result = lastDelivery.content

\* C40: if the user has stopped editing the document and left it open and
\* unsaved, then eventually a check of its final content has run and
\* settled, and if one succeeded its result was delivered to onResult.
C40_FinalContentCheckedAndDelivered ==
  (~editing /\ ~docClosed /\ docDirty)
    ~> (/\ docVersion \in checked
        /\ docVersion \notin runningChecks
        /\ (docVersion \in succeeded => docVersion \in delivered))

====
